---- MODULE Spec2Model ----
(***************************************************************************)
(* A model of the scheduling and quota core of the Shorts automation:      *)
(*   src/app/services/scheduler.py   ShortsScheduler (over APScheduler)    *)
(*   src/channel_manager.py          ChannelManager rate limiting, topics  *)
(*   src/automation.py               generate_and_upload                   *)
(*   src/app/services/youtube_uploader.py   YouTubeUploader                *)
(* Each part has its own specification over the shared variables:          *)
(*   SpecSched  the dispatcher: registration, trigger evaluation, job      *)
(*              bodies in the executor pool, run_job_now, shutdown         *)
(*   SpecQuota  can_upload / record_upload against a wall clock            *)
(*   SpecJob    generate_and_upload, the job body, with its collaborators  *)
(*   SpecUpload YouTubeUploader._resumable_upload, chunk by chunk          *)
(***************************************************************************)
EXTENDS Integers, Sequences, FiniteSets, TLC

VARIABLES
    schedState,      \* scheduler.state: "init" (never started), "running",
                     \* "stopping" (shutdown(wait=True) entered), "stopped"
    jobs,            \* ShortsScheduler.jobs: the job ids it tracks
    store,           \* the jobs the APScheduler instance holds (pending list
                     \* before start(), job store after), in order
    inst,            \* executor instance count per job id (bodies the
                     \* trigger started that are still running)
    manual,          \* bodies running through run_job_now per job id
    drain,           \* time the signal handler's stop() has been waiting
    channels,        \* ChannelManager.channels: name -> rate-limit config
    upload_history,  \* ChannelManager.upload_history: name -> timestamps
    now,             \* the wall clock datetime.now() reads, in minutes
    usage,           \* the topic cache: channel -> topic -> use count
    upload,          \* the attempt _resumable_upload is making, if any
    sleeping,        \* the job ids whose body is inside time.sleep (backoff)
    last             \* the step that was just taken, with its inputs and result

schedVars == <<schedState, jobs, store, inst, manual, drain>>
quotaVars == <<channels, upload_history, now, usage>>
uploadVars == <<upload, sleeping>>
vars == <<schedVars, quotaVars, uploadVars, last>>

(***************************************************************************)
(* Bounds of the model.                                                    *)
(***************************************************************************)
MaxMissed == 2      \* fire times that may pass before the evaluator runs
MaxManual == 1      \* callers that may sit in run_job_now for one job
DrainWindow == 2    \* the drain window the shutdown is measured against

(***************************************************************************)
(* Names.                                                                  *)
(***************************************************************************)
Channels == {"A", "B"}

JobId(c) == <<"channel_", c>>

JobName(c) == <<"Video generation for ", c>>

JobIds == {JobId(c) : c \in Channels}

(***************************************************************************)
(* CronTrigger.from_crontab: the expression split on whitespace is a       *)
(* sequence of fields; a field is a number or Star.                        *)
(***************************************************************************)
Star == 0 - 1

FieldMin == <<0, 0, 1, 1, 0>>

FieldMax == <<59, 23, 31, 12, 6>>

ValidField(i, f) == f = Star \/ (FieldMin[i] <= f /\ f <= FieldMax[i])

CronParses(s) == Len(s) = 5 /\ \A i \in 1..5 : ValidField(i, s[i])

FromCrontab(s) ==
    [minute |-> s[1], hour |-> s[2], day |-> s[3], month |-> s[4],
     day_of_week |-> s[5]]

\* The schedules callers supply: two that parse, one with four fields, one
\* with an hour out of range.
Schedules ==
    { <<0, 9, Star, Star, Star>>,
      <<30, 18, Star, Star, Star>>,
      <<0, 9, Star, Star>>,
      <<0, 24, Star, Star, Star>> }

(***************************************************************************)
(* The APScheduler instance as ShortsScheduler uses it.                    *)
(***************************************************************************)
\* max_instances raised: a second instance is accepted
MaxInstancesTwo == 1 + 1

MaxInstances == 1

Coalesce == TRUE

HasJob(st, id) == \E i \in DOMAIN st : st[i].id = id

JobOf(st, id) == st[CHOOSE i \in DOMAIN st : st[i].id = id]

CountJobs(st, id) == Cardinality({i \in DOMAIN st : st[i].id = id})

\* scheduler.remove_job(job_id); the caller handles JobLookupError (~HasJob)
SchedRemoveJob(st, id) == SelectSeq(st, LAMBDA j : j.id # id)

\* scheduler.add_job(..., replace_existing=True): a running scheduler updates
\* the stored job of that id in place; before start() the job joins the
\* pending list.
SchedAddJob(state, st, job) ==
    IF state = "running" /\ HasJob(st, job.id)
    THEN [i \in DOMAIN st |-> IF st[i].id = job.id THEN job ELSE st[i]]
    ELSE Append(st, job)

\* scheduler.get_job(job_id): a scheduler that is not running looks the id up
\* in its pending list, which start() emptied.
GetJob(state, st, id) ==
    IF state \in {"init", "running"} /\ HasJob(st, id)
    THEN <<JobOf(st, id)>>
    ELSE <<>>

\* scheduler.get_jobs() as list_jobs reports it (next_run_time is abstracted
\* into the job's count of passed fire times and not reported here)
ListJobs(state, st) ==
    IF state \in {"init", "running"}
    THEN [i \in DOMAIN st |->
            [id |-> st[i].id, name |-> st[i].name, trigger |-> st[i].trigger]]
    ELSE <<>>

\* run_times of a due job: coalesce=True keeps only the latest one
RunTimes(missed) == IF Coalesce THEN 1 ELSE missed

\* executor.submit_job under max_instances, then run_job's misfire check: the
\* number of times the body is executed for this submission
Submitted(busy, missed, late) ==
    IF busy >= MaxInstances THEN 0
    ELSE IF late THEN 0
    ELSE RunTimes(missed)

SetMissed(st, id, n) ==
    [i \in DOMAIN st |-> IF st[i].id = id THEN [st[i] EXCEPT !.missed = n] ELSE st[i]]

\* start(): every pending job is really added (replace_existing) and gets its
\* next run time computed from now
RECURSIVE RealAddAll(_, _)
RealAddAll(pending, st) ==
    IF pending = <<>> THEN st
    ELSE RealAddAll(Tail(pending), SchedAddJob("running", st, Head(pending)))

(***************************************************************************)
(* ShortsScheduler                                                         *)
(***************************************************************************)
NoOp == [op |-> "none", id |-> <<>>, ret |-> FALSE, trigger |-> <<>>,
         missed |-> 0, busy |-> 0, runs |-> 0]

Did(op, id, ret) == [NoOp EXCEPT !.op = op, !.id = id, !.ret = ret]

\* add_channel_job that adds without removing the job it tracks
AddChannelJobNoRemove(state, js, st, c, s, accepted) ==
    IF ~CronParses(s) \/ ~accepted
    THEN [ret |-> FALSE, jobs |-> js, store |-> st]
    ELSE [ret |-> TRUE, jobs |-> js \cup {JobId(c)},
          store |-> Append(st, [id |-> JobId(c), name |-> JobName(c),
                                trigger |-> FromCrontab(s), missed |-> 0])]

\* add_channel_job that removes the tracked job before it parses the schedule
AddChannelJobRemoveFirst(state, js, st, c, s, accepted) ==
    LET id == JobId(c)
        st1 == IF id \in js THEN SchedRemoveJob(st, id) ELSE st
    IN  IF ~CronParses(s) \/ ~accepted
        THEN [ret |-> FALSE, jobs |-> js, store |-> st1]
        ELSE [ret |-> TRUE, jobs |-> js \cup {id},
              store |-> SchedAddJob(state, st1,
                          [id |-> id, name |-> JobName(c),
                           trigger |-> FromCrontab(s), missed |-> 0])]

\* the registration both add methods share: the job tracked under the id is
\* removed from the scheduler (JobLookupError when it is not there), then
\* scheduler.add_job builds the job and raises when it does not accept it (a
\* job_func that is not callable, kwargs the callable does not take, trigger
\* arguments of the wrong type), and only after it returned is the id tracked
Register(state, js, st, job, accepted) ==
    IF job.id \in js /\ ~HasJob(st, job.id)
    THEN [ret |-> FALSE, jobs |-> js, store |-> st]
    ELSE LET st1 == IF job.id \in js THEN SchedRemoveJob(st, job.id) ELSE st
         IN  IF ~accepted
             THEN [ret |-> FALSE, jobs |-> js, store |-> st1]
             ELSE [ret |-> TRUE, jobs |-> js \cup {job.id},
                   store |-> SchedAddJob(state, st1, job)]

\* add_channel_job: the result and the two collections after the call
AddChannelJob(state, js, st, c, s, accepted) ==
    IF ~CronParses(s)
    THEN [ret |-> FALSE, jobs |-> js, store |-> st]
    ELSE Register(state, js, st,
                  [id |-> JobId(c), name |-> JobName(c),
                   trigger |-> FromCrontab(s), missed |-> 0], accepted)

\* the trigger add_job builds from 'interval' and hours, minutes, seconds
IntervalTrigger(minutes) == [interval |-> minutes]

\* the name add_job gives a job added without one: that of its callable
FuncName == <<"job_func">>

\* add_interval_job
AddIntervalJob(state, js, st, id, minutes, accepted) ==
    Register(state, js, st,
             [id |-> id, name |-> FuncName,
              trigger |-> IntervalTrigger(minutes), missed |-> 0], accepted)

\* remove_job that forgets the id and leaves the job with the scheduler
RemoveJobUntrackOnly(js, st, id) ==
    IF id \in js
    THEN [ret |-> TRUE, jobs |-> js \ {id}, store |-> st]
    ELSE [ret |-> FALSE, jobs |-> js, store |-> st]

\* remove_job
RemoveJob(js, st, id) ==
    IF id \in js /\ HasJob(st, id)
    THEN [ret |-> TRUE, jobs |-> js \ {id}, store |-> SchedRemoveJob(st, id)]
    ELSE [ret |-> FALSE, jobs |-> js, store |-> st]

\* an evaluator that runs the bodies itself and so sleeps when they sleep
EvaluatorWaitsForSleep(sl) == sl # {}

\* the body, and the time.sleep in it, runs in a thread of the executor's
\* pool; the evaluator's loop is the thread that called start()
EvaluatorWaits(sl) == FALSE

\* an error listener that unschedules the failing job
OnJobErrorUnschedule(st, id) == SchedRemoveJob(st, id)

\* _on_job_error / _on_job_executed: the listeners only log
OnJobError(st, id) == st

OnJobExecuted(st, id) == st

\* an executor that counts the running instances of a job object, so that
\* the job that replaces it starts with none
RunningAfterAddForgotten(ins, id) == [ins EXCEPT ![id] = 0]

\* the executor counts running instances by job id, and neither
\* scheduler.remove_job nor scheduler.add_job touches its counts: the job
\* installed under the id of a running one inherits the running instance
RunningAfterAdd(ins, id) == ins

(***************************************************************************)
(* Actions of the dispatcher.                                              *)
(***************************************************************************)
AddChannelJobCall(c, s, accepted) ==
    /\ schedState \in {"init", "running"}
    /\ LET r == AddChannelJob(schedState, jobs, store, c, s, accepted)
       IN  /\ jobs' = r.jobs
           /\ store' = r.store
           /\ inst' = IF r.ret THEN RunningAfterAdd(inst, JobId(c)) ELSE inst
           /\ last' = [Did("add_channel_job", JobId(c), r.ret) EXCEPT
                         !.trigger = IF CronParses(s) THEN <<FromCrontab(s)>> ELSE <<>>,
                         !.busy = IF JobId(c) \in jobs THEN 1 ELSE 0]
    /\ UNCHANGED <<schedState, manual, drain, quotaVars, uploadVars>>

AddIntervalJobCall(id, minutes, accepted) ==
    /\ schedState \in {"init", "running"}
    /\ LET r == AddIntervalJob(schedState, jobs, store, id, minutes, accepted)
       IN  /\ jobs' = r.jobs
           /\ store' = r.store
           /\ inst' = IF r.ret THEN RunningAfterAdd(inst, id) ELSE inst
           /\ last' = [Did("add_interval_job", id, r.ret) EXCEPT
                         !.trigger = <<IntervalTrigger(minutes)>>,
                         !.busy = IF id \in jobs THEN 1 ELSE 0]
    /\ UNCHANGED <<schedState, manual, drain, quotaVars, uploadVars>>

RemoveJobCall(id) ==
    /\ schedState \in {"init", "running"}
    /\ LET r == RemoveJob(jobs, store, id)
       IN  /\ jobs' = r.jobs
           /\ store' = r.store
           /\ last' = Did("remove_job", id, r.ret)
    /\ UNCHANGED <<schedState, inst, manual, drain, quotaVars, uploadVars>>

Start ==
    /\ schedState = "init"
    /\ schedState' = "running"
    /\ store' = RealAddAll(store, <<>>)
    /\ last' = Did("start", <<>>, TRUE)
    /\ UNCHANGED <<jobs, inst, manual, drain, quotaVars, uploadVars>>

\* a fire time of the job's trigger passes
FireTimePasses(id) ==
    /\ schedState = "running"
    /\ HasJob(store, id)
    /\ JobOf(store, id).missed < MaxMissed
    /\ store' = SetMissed(store, id, JobOf(store, id).missed + 1)
    /\ last' = Did("fire_time", id, TRUE)
    /\ UNCHANGED <<schedState, jobs, inst, manual, drain, quotaVars, uploadVars>>

\* the evaluator processes a due job: one submission for its run times, then
\* the job's next run time is computed from now
ProcessJob(id) ==
    /\ schedState = "running"
    /\ ~EvaluatorWaits(sleeping)
    /\ HasJob(store, id)
    /\ JobOf(store, id).missed >= 1
    /\ \E late \in BOOLEAN :
         LET missed == JobOf(store, id).missed
             runs == Submitted(inst[id], missed, late)
         IN  /\ inst' = [inst EXCEPT ![id] = IF runs > 0 THEN @ + 1 ELSE @]
             /\ last' = [Did("process_job", id, runs > 0) EXCEPT
                           !.missed = missed, !.busy = inst[id], !.runs = runs]
    /\ store' = SetMissed(store, id, 0)
    /\ UNCHANGED <<schedState, jobs, manual, drain, quotaVars, uploadVars>>

\* a body the executor runs returns or raises; the listener is notified
JobFinish(id, raised) ==
    /\ inst[id] > 0
    /\ id \notin sleeping
    /\ inst' = [inst EXCEPT ![id] = @ - 1]
    /\ store' = IF raised THEN OnJobError(store, id) ELSE OnJobExecuted(store, id)
    /\ last' = Did(IF raised THEN "job_error" ELSE "job_executed", id, ~raised)
    /\ UNCHANGED <<schedState, jobs, manual, drain, quotaVars, uploadVars>>

\* run_job_now up to the direct call of job.func
RunJobNowCall(id) ==
    /\ schedState # "stopped"
    /\ manual[id] < MaxManual
    /\ LET found == GetJob(schedState, store, id) # <<>>
       IN  /\ manual' = [manual EXCEPT ![id] = IF found THEN @ + 1 ELSE @]
           /\ last' = [Did(IF found THEN "run_job_now_call" ELSE "run_job_now", id, FALSE)
                         EXCEPT !.busy = inst[id] + manual[id]]
    /\ UNCHANGED <<schedState, jobs, store, inst, drain, quotaVars, uploadVars>>

\* the direct call returns or raises, and run_job_now with it
RunJobNowReturn(id, raised) ==
    /\ manual[id] > 0
    /\ manual' = [manual EXCEPT ![id] = @ - 1]
    /\ last' = Did("run_job_now", id, ~raised)
    /\ UNCHANGED <<schedState, jobs, store, inst, drain, quotaVars, uploadVars>>

\* _signal_handler: stop() enters scheduler.shutdown(wait=True)
SignalHandler ==
    /\ schedState = "running"
    /\ schedState' = "stopping"
    /\ drain' = 0
    /\ last' = Did("signal", <<>>, TRUE)
    /\ UNCHANGED <<jobs, store, inst, manual, quotaVars, uploadVars>>

\* time passes while shutdown waits for the pool
DrainWait ==
    /\ schedState = "stopping"
    /\ \E id \in JobIds : inst[id] > 0
    /\ drain <= DrainWindow
    /\ drain' = drain + 1
    /\ last' = Did("drain_wait", <<>>, TRUE)
    /\ UNCHANGED <<schedState, jobs, store, inst, manual, quotaVars, uploadVars>>

\* the pool is empty: shutdown clears the job store and returns, stop()
\* returns and the handler calls sys.exit(0)
ShutdownComplete ==
    /\ schedState = "stopping"
    /\ \A id \in JobIds : inst[id] = 0
    /\ schedState' = "stopped"
    /\ store' = <<>>
    /\ last' = Did("stopped", <<>>, TRUE)
    /\ UNCHANGED <<jobs, inst, manual, drain, quotaVars, uploadVars>>

(***************************************************************************)
(* run_scheduler: a job is registered for every channel, the scheduler is  *)
(* started, and the bodies it runs may sleep in the upload backoff.        *)
(***************************************************************************)
\* the body of the job enters time.sleep in _resumable_upload
BackoffSleep(id) ==
    /\ inst[id] > 0
    /\ id \notin sleeping
    /\ sleeping' = sleeping \cup {id}
    /\ last' = Did("backoff_sleep", id, TRUE)
    /\ UNCHANGED <<upload, schedVars, quotaVars>>

\* time.sleep returns
BackoffWake(id) ==
    /\ id \in sleeping
    /\ sleeping' = sleeping \ {id}
    /\ last' = Did("backoff_wake", id, TRUE)
    /\ UNCHANGED <<upload, schedVars, quotaVars>>

\* the jobs and the pending list after add_channel_job for "A" and for "B"
Registered(s) ==
    LET a == AddChannelJob("init", {}, <<>>, "A", s, TRUE)
    IN  AddChannelJob("init", a.jobs, a.store, "B", s, TRUE)

\* no upload attempt is in progress
NoUpload ==
    [phase |-> "idle", size |-> 0, offset |-> 0, retry |-> 0, errors |-> 0,
     slept |-> <<>>]

UploadIdle ==
    /\ upload = NoUpload
    /\ sleeping = {}

QuotaIdle ==
    /\ channels = [c \in {} |-> 0]
    /\ upload_history = [c \in {} |-> <<>>]
    /\ now = 0
    /\ usage = [c \in Channels |-> <<>>]

InitSched ==
    /\ schedState = "init"
    /\ jobs = {}
    /\ store = <<>>
    /\ inst = [id \in JobIds |-> 0]
    /\ manual = [id \in JobIds |-> 0]
    /\ drain = 0
    /\ last = NoOp
    /\ QuotaIdle
    /\ UploadIdle

NextSched ==
    \/ \E c \in Channels, s \in Schedules : AddChannelJobCall(c, s, TRUE)
    \/ \E id \in JobIds : RemoveJobCall(id)
    \/ Start
    \/ \E id \in JobIds : FireTimePasses(id)
    \/ \E id \in JobIds : ProcessJob(id)
    \/ \E id \in JobIds, raised \in BOOLEAN : JobFinish(id, raised)
    \/ \E id \in JobIds : RunJobNowCall(id)
    \/ \E id \in JobIds, raised \in BOOLEAN : RunJobNowReturn(id, raised)
    \/ SignalHandler
    \/ DrainWait
    \/ ShutdownComplete

SpecSched == InitSched /\ [][NextSched]_vars

(***************************************************************************)
(* The registry: add_channel_job, add_interval_job and remove_job called   *)
(* with any arguments, among them jobs that scheduler.add_job rejects,     *)
(* while the scheduler evaluates the installed triggers.                   *)
(***************************************************************************)
MaxMinutes == 2     \* longest interval given to add_interval_job

NextRegistry ==
    \/ \E c \in Channels, s \in Schedules, accepted \in BOOLEAN :
          AddChannelJobCall(c, s, accepted)
    \/ \E id \in JobIds, minutes \in 1..MaxMinutes, accepted \in BOOLEAN :
          AddIntervalJobCall(id, minutes, accepted)
    \/ \E id \in JobIds : RemoveJobCall(id)
    \/ Start
    \/ \E id \in JobIds : FireTimePasses(id)
    \/ \E id \in JobIds : ProcessJob(id)
    \/ \E id \in JobIds, raised \in BOOLEAN : JobFinish(id, raised)

SpecRegistry == InitSched /\ [][NextRegistry]_vars

InitPool ==
    /\ schedState = "init"
    /\ \E s \in {x \in Schedules : CronParses(x)} :
          /\ jobs = Registered(s).jobs
          /\ store = Registered(s).store
    /\ inst = [id \in JobIds |-> 0]
    /\ manual = [id \in JobIds |-> 0]
    /\ drain = 0
    /\ last = NoOp
    /\ QuotaIdle
    /\ UploadIdle

NextPool ==
    \/ Start
    \/ \E id \in JobIds : FireTimePasses(id)
    \/ \E id \in JobIds : ProcessJob(id)
    \/ \E id \in JobIds, raised \in BOOLEAN : JobFinish(id, raised)
    \/ \E id \in JobIds : BackoffSleep(id)
    \/ \E id \in JobIds : BackoffWake(id)

SpecPool == InitPool /\ [][NextPool]_vars

(***************************************************************************)
(* ChannelManager rate limiting. The clock counts minutes of local wall    *)
(* time and never runs backwards; a local day has DayMinutes of them.      *)
(***************************************************************************)
DayMinutes == 3     \* minutes in a local day of the model
MaxHistory == 2     \* timestamps the history of channel "A" may hold
MaxLimit == 2       \* daily_video_limit ranges over 0..MaxLimit
MaxInterval == 2    \* min_upload_interval_minutes ranges over 0..MaxInterval

Unknown == "X"

Names == Channels \cup {Unknown}

Configs ==
    [daily_video_limit : 0..MaxLimit, min_upload_interval_minutes : 0..MaxInterval]

\* The clock runs over the first local day and into the second.
MaxNow == DayMinutes + 1

\* Channel "A" takes every configuration and a history of MaxHistory
\* timestamps; the other names hold one timestamp at most.
HistoryCap(name) == IF name = "A" THEN MaxHistory ELSE 1

ChannelTables ==
    {[c \in Channels |-> IF c = "A" THEN cfg
                         ELSE [daily_video_limit |-> MaxLimit,
                               min_upload_interval_minutes |-> MaxInterval]] :
        cfg \in Configs}

\* now.replace(hour=0, minute=0, second=0, microsecond=0)
TodayStart(t) == t - (t % DayMinutes)

RECURSIVE SeqMax(_)
SeqMax(h) ==
    IF Len(h) = 1 THEN h[1]
    ELSE LET m == SeqMax(Tail(h)) IN IF h[1] >= m THEN h[1] ELSE m

\* dict.get(name, [])
HistoryOf(hist, name) == IF name \in DOMAIN hist THEN hist[name] ELSE <<>>

\* dict[name] = value
Put(hist, name, value) ==
    [x \in DOMAIN hist \cup {name} |-> IF x = name THEN value ELSE hist[x]]

\* can_upload that allows one upload more than the daily limit
CanUploadOverLimit(chs, hist, t, name) ==
    IF name \notin DOMAIN chs
    THEN [ret |-> FALSE, upload_history |-> hist]
    ELSE LET channel == chs[name]
             today_start == TodayStart(t)
             history == SelectSeq(HistoryOf(hist, name), LAMBDA x : x >= today_start)
             hist1 == Put(hist, name, history)
         IN  IF Len(history) > channel.daily_video_limit
             THEN [ret |-> FALSE, upload_history |-> hist1]
             ELSE IF history # <<>>
                     /\ t - SeqMax(history) < channel.min_upload_interval_minutes
                  THEN [ret |-> FALSE, upload_history |-> hist1]
                  ELSE [ret |-> TRUE, upload_history |-> hist1]

\* can_upload that prunes and stores the history before it looks the
\* channel up
CanUploadPruneFirst(chs, hist, t, name) ==
    LET today_start == TodayStart(t)
        history == SelectSeq(HistoryOf(hist, name), LAMBDA x : x >= today_start)
        hist1 == Put(hist, name, history)
    IN  IF name \notin DOMAIN chs
        THEN [ret |-> FALSE, upload_history |-> hist1]
        ELSE IF Len(history) >= chs[name].daily_video_limit
             THEN [ret |-> FALSE, upload_history |-> hist1]
             ELSE IF history # <<>>
                     /\ t - SeqMax(history) < chs[name].min_upload_interval_minutes
                  THEN [ret |-> FALSE, upload_history |-> hist1]
                  ELSE [ret |-> TRUE, upload_history |-> hist1]

\* can_upload that never drops the timestamps of earlier days
CanUploadNoPrune(chs, hist, t, name) ==
    IF name \notin DOMAIN chs
    THEN [ret |-> FALSE, upload_history |-> hist]
    ELSE LET channel == chs[name]
             history == HistoryOf(hist, name)
             hist1 == Put(hist, name, history)
         IN  IF Len(history) >= channel.daily_video_limit
             THEN [ret |-> FALSE, upload_history |-> hist1]
             ELSE IF history # <<>>
                     /\ t - SeqMax(history) < channel.min_upload_interval_minutes
                  THEN [ret |-> FALSE, upload_history |-> hist1]
                  ELSE [ret |-> TRUE, upload_history |-> hist1]

\* can_upload without the interval check
CanUploadNoInterval(chs, hist, t, name) ==
    IF name \notin DOMAIN chs
    THEN [ret |-> FALSE, upload_history |-> hist]
    ELSE LET channel == chs[name]
             today_start == TodayStart(t)
             history == SelectSeq(HistoryOf(hist, name), LAMBDA x : x >= today_start)
             hist1 == Put(hist, name, history)
         IN  IF Len(history) >= channel.daily_video_limit
             THEN [ret |-> FALSE, upload_history |-> hist1]
             ELSE [ret |-> TRUE, upload_history |-> hist1]

\* can_upload that stores the pruned history only when it allows the upload
CanUploadStoreOnAllow(chs, hist, t, name) ==
    IF name \notin DOMAIN chs
    THEN [ret |-> FALSE, upload_history |-> hist]
    ELSE LET channel == chs[name]
             today_start == TodayStart(t)
             history == SelectSeq(HistoryOf(hist, name), LAMBDA x : x >= today_start)
             hist1 == Put(hist, name, history)
         IN  IF Len(history) >= channel.daily_video_limit
             THEN [ret |-> FALSE, upload_history |-> hist]
             ELSE IF history # <<>>
                     /\ t - SeqMax(history) < channel.min_upload_interval_minutes
                  THEN [ret |-> FALSE, upload_history |-> hist]
                  ELSE [ret |-> TRUE, upload_history |-> hist1]

\* can_upload: the answer and upload_history after the call
CanUpload(chs, hist, t, name) ==
    IF name \notin DOMAIN chs
    THEN [ret |-> FALSE, upload_history |-> hist]
    ELSE LET channel == chs[name]
             today_start == TodayStart(t)
             history == SelectSeq(HistoryOf(hist, name), LAMBDA x : x >= today_start)
             hist1 == Put(hist, name, history)
         IN  IF Len(history) >= channel.daily_video_limit
             THEN [ret |-> FALSE, upload_history |-> hist1]
             ELSE IF history # <<>>
                     /\ t - SeqMax(history) < channel.min_upload_interval_minutes
                  THEN [ret |-> FALSE, upload_history |-> hist1]
                  ELSE [ret |-> TRUE, upload_history |-> hist1]

\* record_upload that appends to the history of every channel
RecordUploadEveryChannel(hist, t, name) ==
    [c \in DOMAIN hist |-> Append(hist[c], t)]

\* record_upload
RecordUpload(hist, t, name) == Put(hist, name, Append(HistoryOf(hist, name), t))

QNoOp == [op |-> "none", name |-> "", ret |-> FALSE, pruned |-> 0]

CanUploadCall(name) ==
    /\ LET r == CanUpload(channels, upload_history, now, name)
       IN  /\ upload_history' = r.upload_history
           /\ last' = [op |-> "can_upload", name |-> name, ret |-> r.ret,
                        pruned |-> Len(HistoryOf(upload_history, name))
                                   - Len(HistoryOf(r.upload_history, name))]
    /\ UNCHANGED <<channels, now, usage, schedVars, uploadVars>>

RecordUploadCall(name) ==
    /\ Len(HistoryOf(upload_history, name)) < HistoryCap(name)
    /\ upload_history' = RecordUpload(upload_history, now, name)
    /\ last' = [op |-> "record_upload", name |-> name, ret |-> TRUE, pruned |-> 0]
    /\ UNCHANGED <<channels, now, usage, schedVars, uploadVars>>

MinutePasses ==
    /\ now < MaxNow
    /\ now' = now + 1
    /\ last' = QNoOp
    /\ UNCHANGED <<channels, upload_history, usage, schedVars, uploadVars>>

SchedIdle ==
    /\ schedState = "init"
    /\ jobs = {}
    /\ store = <<>>
    /\ inst = [id \in JobIds |-> 0]
    /\ manual = [id \in JobIds |-> 0]
    /\ drain = 0

\* _load_config: every configured channel starts with an empty history
InitQuota ==
    /\ channels \in ChannelTables
    /\ upload_history = [c \in Channels |-> <<>>]
    /\ now = 0
    /\ usage = [c \in Channels |-> <<>>]
    /\ last = QNoOp
    /\ SchedIdle
    /\ UploadIdle

NextQuota ==
    \/ \E name \in Names : CanUploadCall(name)
    \/ \E name \in Names : RecordUploadCall(name)
    \/ MinutePasses

SpecQuota == InitQuota /\ [][NextQuota]_vars

(***************************************************************************)
(* The topic cache (app.services.script_cache, get_topic_cache()): usage   *)
(* counts per channel and topic; a topic never selected has no entry.      *)
(***************************************************************************)
MaxUses == 4        \* topic selections one channel may make

Range(q) == {q[i] : i \in DOMAIN q}

UseCount(u, topic) == IF topic \in DOMAIN u THEN u[topic] ELSE 0

RECURSIVE SumUse(_, _)
SumUse(u, S) ==
    IF S = {} THEN 0
    ELSE LET x == CHOOSE y \in S : TRUE IN u[x] + SumUse(u, S \ {x})

UseTotal(u) == SumUse(u, DOMAIN u)

\* get_smart_topic that prefers the never used topics and else picks any
SmartTopicUnusedElseAny(u, pool) ==
    LET unused == {x \in Range(pool) : x \notin DOMAIN u}
    IN  IF unused # {} THEN unused ELSE Range(pool)

\* get_smart_topic that picks any topic of the pool
SmartTopicAny(u, pool) == Range(pool)

\* get_smart_topic that always returns the first topic of the pool
SmartTopicFirst(u, pool) == {pool[1]}

\* get_smart_topic: the topics the random choice is made among, the never
\* used ones first and else those of minimum use count
SmartTopic(u, pool) ==
    LET unused == {x \in Range(pool) : x \notin DOMAIN u}
    IN  IF unused # {} THEN unused
        ELSE {x \in Range(pool) : \A y \in Range(pool) : u[x] <= u[y]}

\* record_usage
RecordUsage(u, topic) ==
    [x \in DOMAIN u \cup {topic} |->
        IF x = topic THEN UseCount(u, topic) + 1 ELSE u[x]]

(***************************************************************************)
(* ChannelManager.get_random_topic / get_video_params                      *)
(***************************************************************************)
\* Optional[str]: <<>> is None, <<x>> the string x
None == <<>>

Some(x) == <<x>>

\* get_random_topic that does not record the usage
GetRandomTopicNoRecord(chs, use, name, pick) ==
    IF name \notin DOMAIN chs \/ chs[name].topics = <<>>
    THEN [topic |-> None, usage |-> use, selected |-> None]
    ELSE [topic |-> Some(pick), usage |-> use, selected |-> Some(pick)]

\* get_random_topic that asks the selector also for an empty pool
GetRandomTopicNoEmptyCheck(chs, use, name, pick) ==
    IF name \notin DOMAIN chs
    THEN [topic |-> None, usage |-> use, selected |-> None]
    ELSE [topic |-> Some(pick),
          usage |-> [use EXCEPT ![name] = RecordUsage(@, pick)],
          selected |-> Some(pick)]

\* get_random_topic: pick is the selector's choice
GetRandomTopic(chs, use, name, pick) ==
    IF name \notin DOMAIN chs \/ chs[name].topics = <<>>
    THEN [topic |-> None, usage |-> use, selected |-> None]
    ELSE [topic |-> Some(pick),
          usage |-> [use EXCEPT ![name] = RecordUsage(@, pick)],
          selected |-> Some(pick)]

\* get_video_params that selects a topic whatever the caller supplied
NeedsSelectionAlways(topic) == TRUE

\* if topic is None
NeedsSelection(topic) == topic = None

\* get_video_params: whether parameters came back, the subject, the cache
\* and the topic the selector returned, if it was asked
GetVideoParams(chs, use, name, topic, pick) ==
    IF name \notin DOMAIN chs
    THEN [ok |-> FALSE, subject |-> None, usage |-> use, selected |-> None]
    ELSE LET r == IF NeedsSelection(topic)
                  THEN GetRandomTopic(chs, use, name, pick)
                  ELSE [topic |-> topic, usage |-> use, selected |-> None]
         IN  IF r.topic = None \/ r.topic = Some("")
             THEN [ok |-> FALSE, subject |-> None, usage |-> r.usage,
                   selected |-> r.selected]
             ELSE [ok |-> TRUE, subject |-> r.topic, usage |-> r.usage,
                   selected |-> r.selected]

\* the topics the selector may return for this call ("-" when it is not asked)
Picks(chs, use, name) ==
    IF name \in DOMAIN chs /\ chs[name].topics # <<>>
    THEN SmartTopic(use[name], chs[name].topics)
    ELSE {"-"}

(***************************************************************************)
(* automation.generate_and_upload                                          *)
(***************************************************************************)
Stage(stage, ok) == [stage |-> stage, ok |-> ok]

\* an invocation that never asks the rate limiter
QuotaConsultedNever(dry_run) == FALSE

\* if not dry_run and not can_upload(...): and short-circuits
QuotaConsulted(dry_run) == ~dry_run

\* a dry run that goes on to upload
DryRunStopsNever(dry_run) == FALSE

\* if dry_run: return True
DryRunStops(dry_run) == dry_run

\* an upload recorded whatever upload_video returned
AfterUploadAlwaysRecords(hist, t, name, uploaded) == RecordUpload(hist, t, name)

\* if upload_result: record_upload(channel_name)
AfterUpload(hist, t, name, uploaded) ==
    IF uploaded THEN RecordUpload(hist, t, name) ELSE hist

\* a rate limit denial that is logged and not acted on
DeniedNever(consulted, allowed) == FALSE

\* the rate limit check ends the invocation
Denied(consulted, allowed) == consulted /\ ~allowed

\* generate_and_upload. env holds what the collaborators do when they are
\* reached: pick (the selector's choice), gen ("ok", "fail", "raise"), auth
\* and up (BOOLEAN), took, the minutes that pass before the upload is
\* recorded, and early, the call made before the try block that raises
\* ("can_upload", "select") or "none". raised says that the exception left
\* generate_and_upload.
GenerateAndUpload(chs, hist, use, t, name, topic, dry_run, env) ==
    LET consulted == QuotaConsulted(dry_run)
        quota == CanUpload(chs, hist, t, name)
        hist1 == IF consulted THEN quota.upload_history ELSE hist
        tr1 == IF consulted THEN <<Stage("can_upload", quota.ret)>> ELSE <<>>
        Result(ret, h, u, tr, t2, sel) ==
            [ret |-> ret, upload_history |-> h, usage |-> u, trace |-> tr,
             now |-> t2, selected |-> sel, raised |-> FALSE]
        Raise(h, tr) ==
            [ret |-> FALSE, upload_history |-> h, usage |-> use, trace |-> tr,
             now |-> t, selected |-> None, raised |-> TRUE]
    IN  IF consulted /\ name \in DOMAIN chs /\ env.early = "can_upload"
        THEN Raise(hist1, <<Stage("can_upload", FALSE)>>)
        ELSE IF Denied(consulted, quota.ret)
        THEN Result(FALSE, hist1, use, tr1, t, None)
        ELSE IF name \notin DOMAIN chs
        THEN Result(FALSE, hist1, use, tr1, t, None)
        ELSE
        LET vp == GetVideoParams(chs, use, name, topic, env.pick)
            tr2 == IF vp.selected # None
                   THEN Append(tr1, Stage("select", TRUE)) ELSE tr1
        IN  IF vp.selected # None /\ env.early = "select"
            THEN Raise(hist1, Append(tr1, Stage("select", FALSE)))
            ELSE IF ~vp.ok
            THEN Result(FALSE, hist1, vp.usage, tr2, t, vp.selected)
            ELSE
            LET t2 == t + env.took
                tr3 == Append(tr2, Stage("generate", env.gen = "ok"))
            IN  IF env.gen # "ok"
                THEN Result(FALSE, hist1, vp.usage, tr3, t2, vp.selected)
                ELSE IF DryRunStops(dry_run)
                THEN Result(TRUE, hist1, vp.usage, tr3, t2, vp.selected)
                ELSE
                LET tr4 == Append(tr3, Stage("authenticate", env.auth))
                IN  IF ~env.auth
                    THEN Result(FALSE, hist1, vp.usage, tr4, t2, vp.selected)
                    ELSE
                    LET tr5 == Append(tr4, Stage("upload_video", env.up))
                        hist2 == AfterUpload(hist1, t2, name, env.up)
                        tr6 == IF hist2 # hist1
                               THEN Append(tr5, Stage("record_upload", TRUE))
                               ELSE tr5
                    IN  Result(env.up, hist2, vp.usage, tr6, t2, vp.selected)

\* the --topic argument: none, a topic, the empty string
TopicArgs == {None, Some("z"), Some("")}

\* channels.json of the job runs: "A" is limited to one upload a day and has
\* a pool of two topics or none; "B" has no pool and a daily limit of 0
JobChannelTables ==
    {[c \in Channels |->
        IF c = "A"
        THEN [daily_video_limit |-> 1,
              min_upload_interval_minutes |-> 1,
              topics |-> pool]
        ELSE [daily_video_limit |-> 0,
              min_upload_interval_minutes |-> 0,
              topics |-> <<>>]] :
     pool \in {<<>>, <<"a", "b">>}}

\* what generation, the credential check and the publish do and how long the
\* body takes; a collaborator after the first one that fails is not reached
Envs ==
    {e \in [gen : {"ok", "fail", "raise"}, auth : BOOLEAN, up : BOOLEAN,
            took : {0, 1}, early : {"none"}] :
        /\ e.gen # "ok" => e.auth /\ e.up
        /\ ~e.auth => e.up}

Reached(trace, stage) == \E i \in DOMAIN trace : trace[i].stage = stage

\* every collaborator succeeds at once
AllGoesWell ==
    [gen |-> "ok", auth |-> TRUE, up |-> TRUE, took |-> 0, early |-> "none"]

\* a call before the try block raises: can_upload, or the topic cache in
\* get_random_topic
RaisesEarly(trace) ==
    {[AllGoesWell EXCEPT !.early = stage] :
        stage \in {st \in {"can_upload", "select"} : Reached(trace, st)}}

WithPick(env, pick) ==
    [pick |-> pick, gen |-> env.gen, auth |-> env.auth, up |-> env.up,
     took |-> env.took, early |-> env.early]

\* One invocation, start to return. The selector, the generator and the
\* uploader are given an outcome only when the invocation reaches them.
GenerateAndUploadCall(name, topic, dry_run) ==
    /\ name \in DOMAIN usage => UseTotal(usage[name]) < MaxUses
    /\ LET Run(env) == GenerateAndUpload(channels, upload_history, usage, now,
                                         name, topic, dry_run, env)
           all == Picks(channels, usage, name)
           probe == Run(WithPick(AllGoesWell, CHOOSE p \in all : TRUE))
           picks == IF Reached(probe.trace, "select")
                    THEN all ELSE {CHOOSE p \in all : TRUE}
           envs == RaisesEarly(probe.trace) \cup
                   (IF ~Reached(probe.trace, "generate") THEN {AllGoesWell}
                    ELSE IF ~Reached(probe.trace, "authenticate")
                    THEN {e \in Envs : e.auth /\ e.up}
                    ELSE Envs)
       IN  \E pick \in picks, env \in envs :
             LET r == Run(WithPick(env, pick))
             IN  /\ r.now <= MaxNow
                 /\ upload_history' = r.upload_history
                 /\ usage' = r.usage
                 /\ now' = r.now
                 /\ last' = [op |-> "generate_and_upload", name |-> name,
                             topic |-> topic, dry_run |-> dry_run,
                             ret |-> r.ret, trace |-> r.trace,
                             selected |-> r.selected, raised |-> r.raised]
    /\ UNCHANGED <<channels, schedVars, uploadVars>>

InitJob ==
    /\ channels \in JobChannelTables
    /\ upload_history = [c \in Channels |-> <<>>]
    /\ now = 0
    /\ usage = [c \in Channels |-> <<>>]
    /\ last = QNoOp
    /\ SchedIdle
    /\ UploadIdle

NextJob ==
    \/ \E name \in Names, topic \in TopicArgs, dry_run \in BOOLEAN :
          GenerateAndUploadCall(name, topic, dry_run)
    \/ MinutePasses

SpecJob == InitJob /\ [][NextJob]_vars

(***************************************************************************)
(* One channel with a daily limit of 2, no minimum interval and the pool   *)
(* a, b: invocations without --topic, and can_upload.                      *)
(***************************************************************************)
ScenarioChannels ==
    [c \in Channels |->
        IF c = "A"
        THEN [daily_video_limit |-> 2,
              min_upload_interval_minutes |-> 0,
              topics |-> <<"a", "b">>]
        ELSE [daily_video_limit |-> 0,
              min_upload_interval_minutes |-> 0,
              topics |-> <<>>]]

InitScenario ==
    /\ channels = ScenarioChannels
    /\ upload_history = [c \in Channels |-> <<>>]
    /\ now = 0
    /\ usage = [c \in Channels |-> <<>>]
    /\ last = QNoOp
    /\ SchedIdle
    /\ UploadIdle

NextScenario ==
    \/ GenerateAndUploadCall("A", None, FALSE)
    \/ CanUploadCall("A")
    \/ MinutePasses

SpecScenario == InitScenario /\ [][NextScenario]_vars

(***************************************************************************)
(* Two channels that publish with --topic, each limited to one upload a    *)
(* day: can_upload, record_upload and whole invocations for either.        *)
(***************************************************************************)
PartitionTables ==
    {[c \in Channels |->
        [daily_video_limit |-> 1,
         min_upload_interval_minutes |-> interval,
         topics |-> <<>>]] : interval \in {0, 1}}

InitPartition ==
    /\ channels \in PartitionTables
    /\ upload_history = [c \in Channels |-> <<>>]
    /\ now = 0
    /\ usage = [c \in Channels |-> <<>>]
    /\ last = QNoOp
    /\ SchedIdle
    /\ UploadIdle

NextPartition ==
    \/ \E name \in Channels : GenerateAndUploadCall(name, Some("z"), FALSE)
    \/ \E name \in Channels : CanUploadCall(name)
    \/ \E name \in Channels : RecordUploadCall(name)
    \/ MinutePasses

SpecPartition == InitPartition /\ [][NextPartition]_vars

(***************************************************************************)
(* YouTubeUploader._resumable_upload: the retry loop around                *)
(* request.next_chunk(). The request keeps the progress of the transfer    *)
(* (the offset of the next chunk) from one call of next_chunk to the next. *)
(***************************************************************************)
MaxChunks == 2      \* chunks a file is uploaded in

MAX_RETRIES == 10

RETRIABLE_STATUS_CODES == {500, 502, 503, 504}

\* the statuses an HttpError of next_chunk carries in the model
HttpStatuses == RETRIABLE_STATUS_CODES \cup {400, 403}

\* what one call of next_chunk does: the chunk is acknowledged, an HttpError
\* with a status is raised, another exception is raised
Outcomes ==
    {[kind |-> "ack", status |-> 0], [kind |-> "exception", status |-> 0]}
        \cup {[kind |-> "http", status |-> st] : st \in HttpStatuses}

\* a backoff without the cap
SleepSecondsUncapped(retry) == 2 ^ retry

\* a backoff capped at two minutes
SleepSecondsLongCap(retry) == IF 2 ^ retry < 120 THEN 2 ^ retry ELSE 120

\* sleep_seconds = min(2 ** retry, 60)
SleepSeconds(retry) == IF 2 ^ retry < 60 THEN 2 ^ retry ELSE 60

\* one more retry than the ceiling
ExhaustedLate(retry) == retry > MAX_RETRIES + 1

\* if retry > MAX_RETRIES
Exhausted(retry) == retry > MAX_RETRIES

\* a transfer that starts again from the first chunk after an error
ProgressAfterErrorRestart(offset) == 0

\* the request is the same object in every iteration: an error leaves its
\* progress where it was
ProgressAfterError(offset) == offset

\* the except clauses: an HttpError outside the retriable statuses is raised
\* again, every other error is kept for the retry
Reraised(outcome) ==
    outcome.kind = "http" /\ outcome.status \notin RETRIABLE_STATUS_CODES

\* an acknowledgement that takes the transfer round to its first chunk again
ProgressAfterAckWraps(offset) == (offset + 1) % MaxChunks

\* next_chunk returned: the chunk it sent is acknowledged and the request
\* stands at the next one
ProgressAfterAck(offset) == offset + 1

\* a counter that starts again with every acknowledged chunk
RetryAfterAckReset(retry) == 0

\* retry is assigned before the loop and in the error branch only: a chunk
\* that goes through leaves it alone
RetryAfterAck(retry) == retry

\* one iteration of the while loop, up to its time.sleep
ResumableUploadStep(u, outcome) ==
    IF outcome.kind = "ack"
    THEN [u EXCEPT !.offset = ProgressAfterAck(@),
                   !.retry = RetryAfterAck(@),
                   !.phase = IF ProgressAfterAck(u.offset) = u.size
                             THEN "complete" ELSE "transferring"]
    ELSE IF Reraised(outcome)
    THEN [u EXCEPT !.phase = "raised", !.offset = ProgressAfterError(@)]
    ELSE LET retry == u.retry + 1
         IN  IF Exhausted(retry)
             THEN [u EXCEPT !.retry = retry, !.errors = @ + 1,
                            !.offset = ProgressAfterError(@),
                            !.phase = "exhausted"]
             ELSE [u EXCEPT !.retry = retry, !.errors = @ + 1,
                            !.offset = ProgressAfterError(@),
                            !.phase = "sleeping",
                            !.slept = Append(@, SleepSeconds(retry))]

UNoOp == [op |-> "none", outcome |-> [kind |-> "", status |-> 0], sent |-> 0]

\* upload_video hands the insert request of a file of size chunks to
\* _resumable_upload
ResumableUploadCall(size) ==
    /\ upload.phase = "idle"
    /\ upload' = [NoUpload EXCEPT !.phase = "transferring", !.size = size]
    /\ last' = [UNoOp EXCEPT !.op = "_resumable_upload"]
    /\ UNCHANGED <<sleeping, schedVars, quotaVars>>

NextChunk(outcome) ==
    /\ upload.phase = "transferring"
    /\ upload' = ResumableUploadStep(upload, outcome)
    /\ last' = [op |-> "next_chunk", outcome |-> outcome, sent |-> upload.offset]
    /\ UNCHANGED <<sleeping, schedVars, quotaVars>>

\* time.sleep returns and the loop goes round
SleepReturns ==
    /\ upload.phase = "sleeping"
    /\ upload' = [upload EXCEPT !.phase = "transferring"]
    /\ last' = [last EXCEPT !.op = "sleep"]
    /\ UNCHANGED <<sleeping, schedVars, quotaVars>>

InitUpload ==
    /\ upload = NoUpload
    /\ sleeping = {}
    /\ last = UNoOp
    /\ SchedIdle
    /\ QuotaIdle

NextUpload ==
    \/ \E size \in 1..MaxChunks : ResumableUploadCall(size)
    \/ \E outcome \in Outcomes : NextChunk(outcome)
    \/ SleepReturns

SpecUpload == InitUpload /\ [][NextUpload]_vars

\* every call of next_chunk and every time.sleep returns
SpecUploadLive ==
    /\ SpecUpload
    /\ WF_vars(\E outcome \in Outcomes : NextChunk(outcome))
    /\ WF_vars(SleepReturns)

(***************************************************************************)
(* YouTubeUploader.upload_video: the title and description of the request  *)
(* body. A title is written pre, tag, post: pre characters without the     *)
(* text "#Shorts", then the first tag characters of "#Shorts" (all 7 when  *)
(* the title contains it, fewer when a cut went through it), then post     *)
(* more characters. A description is its length.                           *)
(***************************************************************************)
MaxTitle == 102       \* length of the longest title given
MaxPost == 2          \* characters a title may have after "#Shorts"
MaxDescription == 5001  \* length of the longest description given

TagLen == 7           \* len("#Shorts")
SuffixLen == 8        \* len(" #Shorts")
TitleLimit == 100
DescriptionLimit == 5000
SubjectLimit == 90

Plain(n) == [pre |-> n, tag |-> 0, post |-> 0]

TitleLen(title) == title.pre + title.tag + title.post

\* "#Shorts" in title
HasShorts(title) == title.tag = TagLen

\* title[:n]
Take(title, n) ==
    IF n >= TitleLen(title) THEN title
    ELSE IF n <= title.pre THEN Plain(n)
    ELSE IF n < title.pre + title.tag
    THEN [pre |-> title.pre, tag |-> n - title.pre, post |-> 0]
    ELSE [pre |-> title.pre, tag |-> title.tag,
          post |-> n - title.pre - title.tag]

\* f"{title}{shorts_suffix}" for a title without "#Shorts"
WithSuffix(title) == [pre |-> TitleLen(title) + 1, tag |-> TagLen, post |-> 0]

\* the title of a Short as upload_video prepares it
ShortsTitle(title, is_shorts) ==
    IF is_shorts /\ ~HasShorts(title)
    THEN LET max_title_len == TitleLimit - SuffixLen
         IN  WithSuffix(IF TitleLen(title) > max_title_len
                        THEN Take(title, max_title_len) ELSE title)
    ELSE title

\* a request body with the whole title
SnippetTitleUncut(title) == title

\* 'title': title[:100]
SnippetTitle(title) == Take(title, TitleLimit)

\* 'description': description[:5000]
SnippetDescription(description) ==
    IF description > DescriptionLimit THEN DescriptionLimit ELSE description

\* the snippet of the request body
UploadVideoBody(title, description, is_shorts) ==
    [title |-> SnippetTitle(ShortsTitle(title, is_shorts)),
     description |-> SnippetDescription(description)]

\* generate_and_upload: title = video_subject[:90]
MetadataTitle(subject) == Take(subject, SubjectLimit)

Titles ==
    {Plain(n) : n \in 0..MaxTitle}
        \cup {[pre |-> n, tag |-> TagLen, post |-> k] :
                 n \in 0..(MaxTitle - TagLen), k \in 0..MaxPost}

Descriptions == {0} \cup (DescriptionLimit - 1)..MaxDescription

\* no request body has been built
TNoOp ==
    [op |-> "none", title |-> Plain(0), description |-> 0, is_shorts |-> FALSE,
     body |-> [title |-> Plain(0), description |-> 0]]

\* upload_video called with a title of the caller's (upload_video_to_youtube)
UploadVideoCall(title, description, is_shorts) ==
    /\ last = TNoOp
    /\ last' = [op |-> "upload_video", title |-> title,
                description |-> description, is_shorts |-> is_shorts,
                body |-> UploadVideoBody(title, description, is_shorts)]
    /\ UNCHANGED <<schedVars, quotaVars, uploadVars>>

\* generate_and_upload from the generated video to the request body
PublishCall(subject, description) ==
    /\ last = TNoOp
    /\ last' = [op |-> "generate_and_upload", title |-> subject,
                description |-> description, is_shorts |-> TRUE,
                body |-> UploadVideoBody(MetadataTitle(subject), description,
                                         TRUE)]
    /\ UNCHANGED <<schedVars, quotaVars, uploadVars>>

InitTitle ==
    /\ last = TNoOp
    /\ SchedIdle
    /\ QuotaIdle
    /\ UploadIdle

NextTitle ==
    \/ \E title \in Titles, description \in Descriptions, is_shorts \in BOOLEAN :
          UploadVideoCall(title, description, is_shorts)
    \/ \E subject \in Titles, description \in Descriptions :
          PublishCall(subject, description)

SpecTitle == InitTitle /\ [][NextTitle]_vars

(***************************************************************************)
(* Properties of the dispatcher, checked under SpecSched.                  *)
(***************************************************************************)
Bodies(id) == inst[id] + manual[id]

\* C1: a firing that is evaluated while an invocation the trigger started for
\* the same channel is still running is dropped: it executes the body zero
\* times, starts no body, and leaves no fire time behind to be run later.
C1_FiringDroppedWhileRunning ==
    (last.op = "process_job" /\ last.busy >= 1) =>
        /\ last.runs = 0
        /\ inst[last.id] = last.busy
        /\ HasJob(store, last.id) => JobOf(store, last.id).missed = 0

C1_Witness == last.op = "process_job" /\ last.busy >= 1 /\ last.missed >= 1

\* C2: at no time are two executions of the job body of one channel in
\* progress, whether the trigger or run_job_now started them.
C2_SingleFlight == \A id \in JobIds : Bodies(id) <= 1

\* C3: when the evaluator resumes after two or more fire times of a channel
\* were missed, exactly one execution of the job body is started.
C3_ExactlyOneCatchUp ==
    (last.op = "process_job" /\ last.missed >= 2) => last.runs = 1

C5_UnscheduledAfterParseFailure ==
    (last.op = "add_channel_job" /\ last.trigger = <<>>) =>
        /\ ~last.ret
        /\ ~HasJob(store, last.id)

\* C5 as amended: add_channel_job with a cron expression that does not parse
\* returns False and changes nothing: a channel without a job stays without,
\* and a job installed before the call stays installed with its trigger.
C5_ParseFailureChangesNothing ==
    [][ (last'.op = "add_channel_job" /\ last'.trigger = <<>>) =>
            /\ ~last'.ret
            /\ store' = store
            /\ jobs' = jobs ]_vars

C5_Witness ==
    /\ last.op = "add_channel_job"
    /\ last.trigger = <<>>
    /\ ~last.ret
    /\ HasJob(store, last.id)

\* C6: a job body that raises does not unschedule its channel: the step in
\* which the error is reported leaves the installed jobs, their triggers and
\* what list_jobs reports as they were.
C6_ErrorKeepsSchedule ==
    [][ last'.op = "job_error" =>
            /\ store' = store
            /\ jobs' = jobs
            /\ ListJobs(schedState', store') = ListJobs(schedState, store) ]_vars

C6_Witness ==
    /\ last.op = "job_error"
    /\ schedState = "running"
    /\ \E i \in DOMAIN ListJobs(schedState, store) :
          ListJobs(schedState, store)[i].id = last.id

\* C7: once shutdown has been invoked no job body is started, and shutdown
\* completes only when no job body is still running.
C7_ShutdownDrains ==
    /\ schedState \in {"stopping", "stopped"} =>
          /\ last.op # "run_job_now_call"
          /\ ~(last.op = "process_job" /\ last.runs > 0)
    /\ last.op = "stopped" => \A id \in JobIds : Bodies(id) = 0

\* C8: shutdown never waits for an in-flight job body beyond the drain window.
C8_DrainBounded == schedState = "stopping" => drain <= DrainWindow

(***************************************************************************)
(* Properties of the rate limiter, checked under SpecQuota.                *)
(***************************************************************************)
Todays(h, t) == {i \in DOMAIN h : h[i] >= TodayStart(t)}

Latest(h, t) == CHOOSE m \in {h[i] : i \in Todays(h, t)} :
                    \A i \in Todays(h, t) : h[i] <= m

\* C9: for a configured channel can_upload answers True exactly when fewer
\* timestamps than daily_video_limit lie at or after the start of the current
\* local day and none of them is more recent than min_upload_interval_minutes;
\* a limit of 0 always denies and an interval of 0 never denies.
C9_CanUploadAnswer ==
    [][ (last'.op = "can_upload" /\ last'.name \in DOMAIN channels) =>
            LET h == HistoryOf(upload_history, last'.name)
                cfg == channels[last'.name]
                n == Cardinality(Todays(h, now))
                spaced == n = 0 \/ now - Latest(h, now) >= cfg.min_upload_interval_minutes
            IN  /\ last'.ret = (n < cfg.daily_video_limit /\ spaced)
                /\ cfg.daily_video_limit = 0 => ~last'.ret
                /\ cfg.min_upload_interval_minutes = 0 =>
                       last'.ret = (n < cfg.daily_video_limit) ]_vars

\* an allowed call with uploads recorded today, and so exactly at the limit's
\* and the interval's edge
C9_Witness ==
    /\ last.op = "can_upload"
    /\ last.name \in DOMAIN channels
    /\ last.ret
    /\ Len(upload_history[last.name]) = channels[last.name].daily_video_limit - 1
    /\ Len(upload_history[last.name]) >= 1
    /\ channels[last.name].min_upload_interval_minutes >= 1
    /\ now - SeqMax(upload_history[last.name]) = channels[last.name].min_upload_interval_minutes

\* C10: can_upload for a name that is not configured answers False and leaves
\* upload_history as it was: no entry is created and none is changed.
C10_UnknownChannelDenied ==
    [][ (last'.op = "can_upload" /\ last'.name \notin DOMAIN channels) =>
            /\ ~last'.ret
            /\ upload_history' = upload_history ]_vars

C10_Witness ==
    /\ last.op = "can_upload"
    /\ last.name \notin DOMAIN channels
    /\ last.name \notin DOMAIN upload_history
    /\ \E c \in DOMAIN channels : upload_history[c] # <<>>

\* the local day a minute of the clock falls in
DayOf(t) == t \div DayMinutes

\* C11: with a daily limit L >= 1, a can_upload call that finds exactly L
\* timestamps recorded in the current local day answers False, and a call
\* that finds every recorded timestamp in an earlier local day answers True.
C11_DailyLimitResets ==
    [][ (last'.op = "can_upload" /\ last'.name \in DOMAIN channels
         /\ channels[last'.name].daily_video_limit >= 1) =>
            LET h == HistoryOf(upload_history, last'.name)
                limit == channels[last'.name].daily_video_limit
                today == {i \in DOMAIN h : DayOf(h[i]) = DayOf(now)}
            IN  /\ Cardinality(today) = limit => ~last'.ret
                /\ (h # <<>> /\ \A i \in DOMAIN h : DayOf(h[i]) < DayOf(now))
                       => last'.ret ]_vars

\* the call after the day boundary found exactly L timestamps, all of the day
\* before, dropped them and answered True
C11_Witness ==
    /\ last.op = "can_upload"
    /\ last.name \in DOMAIN channels
    /\ last.ret
    /\ last.pruned >= 1
    /\ last.pruned = channels[last.name].daily_video_limit
    /\ upload_history[last.name] = <<>>

\* C12 as claimed: a can_upload call made less than
\* min_upload_interval_minutes after a recorded timestamp answers False,
\* whatever the wall-clock time of the call.
C12_IntervalAlwaysDenies ==
    [][ (last'.op = "can_upload" /\ last'.name \in DOMAIN channels) =>
            LET h == HistoryOf(upload_history, last'.name)
                interval == channels[last'.name].min_upload_interval_minutes
            IN  (\E i \in DOMAIN h : now - h[i] < interval) => ~last'.ret ]_vars

\* C12 as amended: a can_upload call made less than
\* min_upload_interval_minutes after a timestamp recorded in the same local
\* day answers False.
C12_IntervalDeniesSameDay ==
    [][ (last'.op = "can_upload" /\ last'.name \in DOMAIN channels) =>
            LET h == HistoryOf(upload_history, last'.name)
                interval == channels[last'.name].min_upload_interval_minutes
            IN  (\E i \in DOMAIN h :
                    DayOf(h[i]) = DayOf(now) /\ now - h[i] < interval)
                => ~last'.ret ]_vars

\* a denial the interval alone caused
C12_Witness ==
    /\ last.op = "can_upload"
    /\ last.name \in DOMAIN channels
    /\ ~last.ret
    /\ upload_history[last.name] # <<>>
    /\ Len(upload_history[last.name]) < channels[last.name].daily_video_limit
    /\ now - SeqMax(upload_history[last.name])
          < channels[last.name].min_upload_interval_minutes

(***************************************************************************)
(* Properties of one invocation of generate_and_upload, checked under      *)
(* SpecJob.                                                                *)
(***************************************************************************)
IsJob(l) == l.op = "generate_and_upload"

\* what can_upload keeps of a history at time t
KeptAt(h, t) == SelectSeq(h, LAMBDA ts : DayOf(ts) = DayOf(t))

\* the history of name after the step holds no timestamp it did not hold before
NothingGained(name) ==
    LET h == HistoryOf(upload_history, name)
    IN  HistoryOf(upload_history', name) \in {h, KeptAt(h, now)}

\* the history of name after the step is the one before, pruned or not, and
\* the time of the recording
OneGained(name) ==
    LET h == HistoryOf(upload_history, name)
    IN  HistoryOf(upload_history', name)
            \in {Append(h, now'), Append(KeptAt(h, now), now')}

Published(l) == \E i \in DOMAIN l.trace : l.trace[i] = Stage("upload_video", TRUE)

\* C13: an invocation of generate_and_upload adds exactly one timestamp to the
\* channel's upload history if and only if upload_video returned success, and
\* adds none in every other outcome; no other channel's history changes.
C13_RecordedIffPublished ==
    [][IsJob(last') =>
        /\ Published(last') => OneGained(last'.name)
        /\ ~Published(last') => NothingGained(last'.name)
        /\ \A c \in Names \ {last'.name} :
              HistoryOf(upload_history', c) = HistoryOf(upload_history, c)]_vars

C13_Witness ==
    /\ IsJob(last) /\ Published(last) /\ last.ret
    /\ HistoryOf(upload_history, last.name) = <<now>>

StageRank(stage) ==
    CASE stage = "can_upload" -> 1
      [] stage = "select" -> 2
      [] stage = "generate" -> 3
      [] stage = "authenticate" -> 4
      [] stage = "upload_video" -> 5
      [] stage = "record_upload" -> 6

\* C14: the stages of an invocation run in the order quota check, topic
\* selection, generation, credential check, publish, quota record, each only
\* after every earlier stage that ran succeeded; outside dry-run the quota
\* check comes first, and when it denies nothing else runs and no topic usage
\* is recorded.
C14_StagesInOrder ==
    [][IsJob(last') =>
        LET tr == last'.trace
        IN  /\ \A i, j \in DOMAIN tr :
                  i < j => /\ StageRank(tr[i].stage) < StageRank(tr[j].stage)
                           /\ tr[i].ok
            /\ ~last'.dry_run =>
                  /\ tr # <<>>
                  /\ tr[1].stage = "can_upload"
                  /\ ~tr[1].ok =>
                        /\ Len(tr) = 1
                        /\ ~last'.ret
                        /\ last'.selected = None
                        /\ usage' = usage]_vars

C14_Witness ==
    /\ IsJob(last)
    /\ [i \in DOMAIN last.trace |-> last.trace[i].stage]
          = <<"can_upload", "select", "generate", "authenticate",
              "upload_video", "record_upload">>

\* C15: a dry run does not consult the rate limit and stops after generation:
\* no credential check, no publish, no quota record, every upload history
\* unchanged, and a dry run whose generation succeeded reports success.
C15_DryRunStopsAfterGeneration ==
    [][(IsJob(last') /\ last'.dry_run) =>
        /\ \A i \in DOMAIN last'.trace :
              last'.trace[i].stage \in {"select", "generate"}
        /\ upload_history' = upload_history
        /\ last'.ret = (Stage("generate", TRUE) \in Range(last'.trace))]_vars

\* a dry run that succeeded for a channel the rate limit denies
C15_Witness ==
    /\ IsJob(last) /\ last.dry_run /\ last.ret
    /\ ~CanUpload(channels, upload_history, now, last.name).ret

\* C16: with an explicit topic the selector is not called and no topic usage
\* is recorded; outside dry-run the rate limit still decides whether the
\* invocation goes on.
C16_ExplicitTopicSkipsSelector ==
    [][(IsJob(last') /\ last'.topic # None) =>
        /\ last'.selected = None
        /\ ~Reached(last'.trace, "select")
        /\ usage' = usage
        /\ (~last'.dry_run
            /\ ~CanUpload(channels, upload_history, now, last'.name).ret) =>
              /\ ~last'.ret
              /\ ~Reached(last'.trace, "generate")
              /\ NothingGained(last'.name)]_vars

C16_Witness ==
    /\ IsJob(last) /\ last.topic = Some("z") /\ ~last.dry_run
    /\ Published(last) /\ last.ret
    /\ usage[last.name] = <<>>

\* C17: an invocation that reaches topic selection raises the use count of
\* the selected topic by exactly one and changes no other count, also when
\* generation, the credential check or the publish fails afterwards.
C17_SelectionCountsOnce ==
    [][(IsJob(last') /\ last'.selected # None) =>
        LET topic == last'.selected[1]
            name == last'.name
        IN  /\ UseCount(usage'[name], topic) = UseCount(usage[name], topic) + 1
            /\ \A c \in DOMAIN usage, x \in {"a", "b", "z", "", "-"} :
                  (c # name \/ x # topic) =>
                      UseCount(usage'[c], x) = UseCount(usage[c], x)]_vars

\* a second selection of a topic in an invocation that failed after it
C17_Witness ==
    /\ IsJob(last) /\ last.selected # None /\ ~last.ret
    /\ Reached(last.trace, "generate")
    /\ UseCount(usage[last.name], last.selected[1]) = 2

\* C18: the selector returns a topic of the pool: one never used when there
\* is one, and otherwise one whose use count is the least of the pool.
C18_SelectorPrefersLeastUsed ==
    [][(IsJob(last') /\ last'.selected # None) =>
        LET topic == last'.selected[1]
            u == usage[last'.name]
            pool == Range(channels[last'.name].topics)
        IN  /\ topic \in pool
            /\ (\E y \in pool : UseCount(u, y) = 0) => UseCount(u, topic) = 0
            /\ \A y \in pool : UseCount(u, topic) <= UseCount(u, y)]_vars

\* the selection of the one topic that had been used less than the other
C18_Witness ==
    /\ IsJob(last) /\ last.selected # None
    /\ \A y \in Range(channels[last.name].topics) :
          UseCount(usage[last.name], y) = 2

\* C19: starting with no usage, once a channel with a pool of N distinct
\* topics has made N selections, every topic of the pool has been selected.
C19_EveryTopicWithinN ==
    \A c \in DOMAIN channels :
        LET pool == channels[c].topics
        IN  (pool # <<>> /\ UseTotal(usage[c]) >= Len(pool)) =>
                \A y \in Range(pool) : UseCount(usage[c], y) >= 1

C19_Witness ==
    /\ IsJob(last) /\ last.selected # None
    /\ UseTotal(usage[last.name]) = Len(channels[last.name].topics)
    /\ \A y \in Range(channels[last.name].topics) :
          UseCount(usage[last.name], y) = 1

\* C20: for a channel with an empty pool and no explicit topic the selector is
\* not called, the invocation fails, nothing is generated, and neither topic
\* usage nor an upload is recorded.
C20_EmptyPoolFails ==
    [][(/\ IsJob(last')
        /\ last'.name \in DOMAIN channels
        /\ channels[last'.name].topics = <<>>
        /\ last'.topic = None) =>
        /\ ~last'.ret
        /\ last'.selected = None
        /\ \A i \in DOMAIN last'.trace : last'.trace[i].stage = "can_upload"
        /\ usage' = usage
        /\ NothingGained(last'.name)]_vars

\* the rate limit allowed the invocation and it failed for want of a topic
C20_Witness ==
    /\ IsJob(last) /\ ~last.dry_run /\ last.topic = None
    /\ channels[last.name].topics = <<>>
    /\ last.trace = <<Stage("can_upload", TRUE)>>
    /\ ~last.ret

(***************************************************************************)
(* Properties of the resumable upload, checked under SpecUpload.           *)
(***************************************************************************)
\* C21: an upload that met K errors it retries, K <= 10, and no other error is
\* not given up: when it completes it has slept exactly K times, the i-th
\* time for min(2^i, 60) seconds, so the delays never decrease and never
\* exceed 60 seconds.
C21_BackoffSchedule ==
    /\ upload.errors <= 10 => upload.phase # "exhausted"
    /\ upload.phase = "complete" =>
          /\ Len(upload.slept) = upload.errors
          /\ \A i \in DOMAIN upload.slept :
                /\ upload.slept[i] = (IF i >= 6 THEN 60 ELSE 2 ^ i)
                /\ upload.slept[i] <= 60
                /\ i > 1 => upload.slept[i - 1] <= upload.slept[i]

C21_Witness ==
    /\ upload.phase = "complete"
    /\ upload.errors = 10

\* C22: an error of next_chunk other than an HTTP status 500, 502, 503 or 504
\* ends the upload at once: no retry is counted, no sleep, no further chunk.
C22_OtherErrorsFailAtOnce ==
    [][(/\ last'.op = "next_chunk"
        /\ last'.outcome.kind # "ack"
        /\ ~(/\ last'.outcome.kind = "http"
             /\ last'.outcome.status \in {500, 502, 503, 504})) =>
        /\ upload'.phase = "raised"
        /\ upload'.retry = upload.retry
        /\ upload'.slept = upload.slept]_vars

\* C23: an upload ends with its retries exhausted exactly when its retry count
\* exceeds 10, that is at the 11th retried error, after which it neither
\* sleeps nor sends; no upload sleeps for more than 10 retries.
C23_RetriesExhausted ==
    /\ (upload.phase = "exhausted") = (upload.retry > 10)
    /\ upload.phase = "exhausted" => upload.errors = 11
    /\ Len(upload.slept) <= 10
    /\ upload.retry <= 11

C23_Witness ==
    /\ upload.phase = "exhausted"
    /\ Len(upload.slept) = 10

\* C24: the chunk sent after an error and its backoff is the chunk that
\* failed, and within one upload the offset never decreases.
C24_Resumable ==
    [][/\ (last.op = "sleep" /\ last'.op = "next_chunk") =>
              last'.sent = last.sent
       /\ upload.phase # "idle" => upload'.offset >= upload.offset]_vars

\* a chunk other than the first is sent again after a backoff
C24_Witness ==
    /\ last.op = "next_chunk"
    /\ last.sent >= 1
    /\ upload.retry >= 1
    /\ upload.phase = "complete"

(***************************************************************************)
(* Properties of the request body, checked under SpecTitle.                *)
(***************************************************************************)
\* C25: the title of the request body is at most 100 characters, the suffix
\* included, and the description at most 5000, for every title and
\* description given.
C25_BodyWithinLimits ==
    last.op \in {"upload_video", "generate_and_upload"} =>
        /\ last.body.title.pre + last.body.title.tag + last.body.title.post <= 100
        /\ last.body.description <= 5000

\* a title and a description over the limits were given, the title with
\* "#Shorts" in it
C25_Witness ==
    /\ last.op = "upload_video"
    /\ last.title.pre + last.title.tag + last.title.post > 100
    /\ last.title.tag = 7
    /\ last.description > 5000
    /\ last.body.description = 5000

\* C26: with Shorts tagging on, the title of the request body contains the
\* whole text "#Shorts", for every title given.
C26_TitleKeepsShorts ==
    (last.op \in {"upload_video", "generate_and_upload"} /\ last.is_shorts) =>
        last.body.title.tag = 7

C28_NoExceptionEscapes ==
    IsJob(last) => ~last.raised

(***************************************************************************)
(* Properties across channels, checked under SpecPartition.                *)
(***************************************************************************)
\* C29: can_upload, record_upload and a whole invocation for one channel leave
\* the upload history of every other channel as it was, and with it the
\* answer can_upload gives for that channel.
C29_QuotaPartitioned ==
    [][last'.op \in {"can_upload", "record_upload", "generate_and_upload"} =>
        \A c \in Channels \ {last'.name} :
            /\ HistoryOf(upload_history', c) = HistoryOf(upload_history, c)
            /\ CanUpload(channels, upload_history', now', c).ret
                  = CanUpload(channels, upload_history, now', c).ret]_vars

\* one channel published while the other had an upload in its history
C29_Witness ==
    /\ IsJob(last) /\ Published(last)
    /\ \E c \in Channels \ {last.name} :
          /\ HistoryOf(upload_history, c) # <<>>
          /\ ~CanUpload(channels, upload_history, now, c).ret

(***************************************************************************)
(* The scenario of SpecScenario.                                           *)
(***************************************************************************)
\* C30: with a daily limit of 2, no interval and the pool a, b, once two
\* invocations have published on one local day and these made the only two
\* selections, a and b have each been used once and can_upload on that day
\* returns False.
C30_TwoPublishesThenDenied ==
    [][(/\ last'.op = "can_upload"
        /\ last'.name = "A"
        /\ Len(upload_history["A"]) = 2
        /\ \A i \in 1..2 : DayOf(upload_history["A"][i]) = DayOf(now)
        /\ UseTotal(usage["A"]) = 2) =>
        /\ UseCount(usage["A"], "a") = 1
        /\ UseCount(usage["A"], "b") = 1
        /\ ~last'.ret]_vars

C30_Witness ==
    /\ last.op = "can_upload" /\ last.name = "A" /\ ~last.ret
    /\ Len(upload_history["A"]) = 2
    /\ UseCount(usage["A"], "a") = 1
    /\ UseCount(usage["A"], "b") = 1

(***************************************************************************)
(* Termination of _resumable_upload, under SpecUploadLive.                 *)
(***************************************************************************)
Returned == {"complete", "exhausted", "raised"}

\* C31: every upload call terminates, with the response returned or with a
\* failure, when the file has finitely many chunks and every chunk send
\* returns with an acknowledgement that advances the offset or with an error.
C31_UploadTerminates == (upload.phase = "transferring") ~> (upload.phase \in Returned)

C31_Witness ==
    /\ upload.phase = "complete"
    /\ upload.size > 1
    /\ upload.errors >= 1

(***************************************************************************)
(* The registry, under SpecRegistry.                                       *)
(***************************************************************************)
Listed(state, st, id) ==
    \E i \in DOMAIN ListJobs(state, st) : ListJobs(state, st)[i].id = id

\* C32: after remove_job for a registered job id the job is not in list_jobs
\* and its trigger does not fire again (only an installed job has fire times
\* and is processed); remove_job for an id that is not registered returns
\* False and changes nothing.
C32_RemovedJobIsGone ==
    /\ [][ last'.op = "remove_job" =>
              IF last'.id \in jobs
              THEN /\ ~Listed(schedState', store', last'.id)
                   /\ ~HasJob(store', last'.id)
              ELSE /\ ~last'.ret
                   /\ jobs' = jobs
                   /\ store' = store
                   /\ inst' = inst ]_vars
    /\ [][ last'.op \in {"fire_time", "process_job"} =>
              HasJob(store, last'.id) ]_vars

\* a job is removed while the body it started runs, another stays installed
C32_Witness ==
    /\ last.op = "remove_job"
    /\ last.ret
    /\ schedState = "running"
    /\ inst[last.id] = 1
    /\ \E id \in JobIds : HasJob(store, id)

\* C35: re-registering a channel with add_channel_job while an invocation its
\* previous trigger started is still running does not let a second invocation
\* of the channel start before the first ends: the call leaves the count of
\* running invocations as it was, the evaluator starts a body only for a job
\* that has none running, and never do two bodies the trigger started run.
C35_ReRegistrationKeepsSingleFlight ==
    /\ [][ (last'.op = "add_channel_job" /\ inst[last'.id] >= 1) =>
              inst' = inst ]_vars
    /\ [][ (last'.op = "process_job" /\ last'.runs > 0) =>
              inst[last'.id] = 0 ]_vars
    /\ [](\A id \in JobIds : inst[id] <= 1)

\* the channel was given a new trigger while its body was running
C35_Witness ==
    /\ last.op = "add_channel_job"
    /\ last.ret
    /\ last.busy = 1
    /\ inst[last.id] = 1
    /\ schedState = "running"

Installed(st) == {st[i].id : i \in DOMAIN st}

\* C39: after any sequence of add_channel_job, add_interval_job and remove_job
\* calls, calls that fail part-way included, the job ids tracked in
\* ShortsScheduler.jobs are exactly the ids installed in the scheduler.
C39_TrackedIsInstalled == jobs = Installed(store)

(***************************************************************************)
(* The daily limit over whole invocations, under SpecJob: every invocation *)
(* runs from its rate limit check to its record before the next one of any *)
(* channel starts, as the dispatcher's single flight gives per channel.     *)
(***************************************************************************)
Days == 0..DayOf(MaxNow)

RecordedOn(h, d) == Cardinality({i \in DOMAIN h : DayOf(h[i]) = d})

\* C33: for any sequence of invocations the dispatcher starts, one at a time
\* per channel and in any order across channels, the number of upload
\* timestamps a channel holds within one local day never exceeds its
\* daily_video_limit.
C33_DailyLimitHolds ==
    \A c \in DOMAIN channels, d \in Days :
        RecordedOn(HistoryOf(upload_history, c), d)
            <= channels[c].daily_video_limit

\* an invocation is denied by the daily limit alone: the one upload of the
\* day is older than the minimum interval
C33_Witness ==
    /\ IsJob(last) /\ last.name = "A" /\ ~last.dry_run
    /\ last.trace = <<Stage("can_upload", FALSE)>>
    /\ Len(upload_history["A"]) = channels["A"].daily_video_limit
    /\ \A i \in DOMAIN upload_history["A"] :
          /\ DayOf(upload_history["A"][i]) = DayOf(now)
          /\ now - upload_history["A"][i] >= channels["A"].min_upload_interval_minutes

(***************************************************************************)
(* The retry counter and the backoff of one upload call, under SpecUpload. *)
(***************************************************************************)
\* C34: the retry counter of one upload call is never reset by an
\* acknowledged chunk: it counts every error the call has retried, the
\* ceiling of 10 bounds the errors of the whole call, and an upload that
\* meets 11 errors fails even if chunks are acknowledged between them.
C34_RetryNeverReset ==
    /\ upload.retry = upload.errors
    /\ upload.errors <= MAX_RETRIES + 1
    /\ upload.errors = MAX_RETRIES + 1 => upload.phase = "exhausted"

\* the 11th error ends a call that had a chunk acknowledged
C34_Witness ==
    /\ upload.phase = "exhausted"
    /\ upload.errors = MAX_RETRIES + 1
    /\ upload.offset >= 1

RECURSIVE SleptTotal(_)
SleptTotal(s) == IF s = <<>> THEN 0 ELSE Head(s) + SleptTotal(Tail(s))

\* C38: the backoff sleeps of one upload call add up to no more than
\* 2 + 4 + 8 + 16 + 32 + 60 + 60 + 60 + 60 + 60 = 362 seconds, and there are
\* never more than 10 of them.
C38_BackoffBudget ==
    /\ SleptTotal(upload.slept) <= 2 + 4 + 8 + 16 + 32 + 60 + 60 + 60 + 60 + 60
    /\ Len(upload.slept) <= MAX_RETRIES

\* a call slept all of its budget
C38_Witness ==
    /\ Len(upload.slept) = MAX_RETRIES
    /\ SleptTotal(upload.slept) = 362
    /\ upload.phase = "sleeping"

(***************************************************************************)
(* The use counts of a pool, under SpecJob.                                *)
(***************************************************************************)
\* C36: with a fixed topic pool and every selection followed by its usage
\* record, the use counts of any two topics of the pool differ by at most 1
\* after any number of selections, a topic without an entry counting as 0:
\* no topic is chosen a second time before every other was chosen once.
C36_UseCountsBalanced ==
    \A c \in DOMAIN channels :
        \A x, y \in Range(channels[c].topics) :
            UseCount(usage[c], x) <= UseCount(usage[c], y) + 1

\* a third selection was made from a pool of two
C36_Witness ==
    /\ IsJob(last) /\ last.name = "A" /\ last.selected # None
    /\ \E x, y \in Range(channels["A"].topics) :
          /\ UseCount(usage["A"], x) = 2
          /\ UseCount(usage["A"], y) = 1

(***************************************************************************)
(* What can_upload does to the history, under SpecQuota.                   *)
(***************************************************************************)
\* C37: can_upload never adds a timestamp to a history and removes only
\* timestamps older than the start of the current local day; for a configured
\* channel it stores the pruned history also when it denies (a name that is
\* not configured is denied before the history is read, and keeps its
\* history); no other channel's history changes;
\* and a second call at the same instant, with no record in between, returns
\* the same answer and leaves the history as the first call left it.
C37_CanUploadFrame ==
    [][ last'.op = "can_upload" =>
          LET name == last'.name
              h == HistoryOf(upload_history, name)
              again == CanUpload(channels, upload_history', now', name)
          IN  /\ HistoryOf(upload_history', name)
                    = IF name \in DOMAIN channels
                      THEN SelectSeq(h, LAMBDA ts : ts >= TodayStart(now))
                      ELSE h
              /\ \A c \in DOMAIN upload_history' \ {name} :
                    /\ c \in DOMAIN upload_history
                    /\ upload_history'[c] = upload_history[c]
              /\ again.ret = last'.ret
              /\ again.upload_history = upload_history' ]_vars

\* a call that denies and drops a timestamp of an earlier day
C37_Witness ==
    /\ last.op = "can_upload"
    /\ last.name \in DOMAIN channels
    /\ ~last.ret
    /\ last.pruned >= 1

====
